---- MODULE Spec2Model ----
(***************************************************************************)
(* State-machine model of rtl.py: the rtlamr reader (rtl.get_rtl_values),  *)
(* the gas/electric and water extraction, the metric batches written to    *)
(* influxdb, and the __main__ scheduler loop.                              *)
(*                                                                         *)
(* The program is single threaded.  pc is the position of the main        *)
(* program, rpc the position inside get_rtl_values while a call of it is   *)
(* in progress.  The decoder process is the environment: it writes lines   *)
(* to its stdout (chosen when read) and may exit at any time.              *)
(***************************************************************************)
EXTENDS Integers, Sequences, FiniteSets, TLC

(***************************************************************************)
(* Bounds of the model.                                                    *)
(***************************************************************************)
\* lines one decoder process writes to stdout before it goes silent
MaxLines == 2
\* length of the filterids list of a direct call of get_rtl_values
MaxFilterIds == 2
\* ticks of the scheduler loop that are explored (beat runs 0..MaxBeat)
MaxBeat == 12
\* lines a weather decoder writes before it ends
MaxWeatherLines == 3

(***************************************************************************)
(* Python / JSON values.  Every value is a record of one shape so that     *)
(* values of different Python types can be compared (and are unequal).     *)
(***************************************************************************)
PyNone == [t |-> "none", n |-> 0, s |-> ""]
PyInt(n) == [t |-> "int", n |-> n, s |-> ""]
PyStr(s) == [t |-> "str", n |-> 0, s |-> s]
\* a key that is not in a dict
Absent == [t |-> "absent", n |-> 0, s |-> ""]

\* str(x) for the values that reach it: str of a str is itself, str of an int
\* its decimal digits
Str(v) == IF v.t = "int" THEN ToString(v.n) ELSE v.s

\* the strings float() accepts, among those of the model
NumericStrings == {"4500"}
StringAsNumber == ("4500" :> 4500)

\* float(raw): the number, or the exception float() raises
Float(raw) ==
    CASE raw.t = "int" -> [exc |-> "", x |-> raw.n]
      [] raw.t = "str" /\ raw.s \in NumericStrings
                       -> [exc |-> "", x |-> StringAsNumber[raw.s]]
      [] raw.t = "str" -> [exc |-> "ValueError", x |-> 0]
      [] OTHER         -> [exc |-> "TypeError", x |-> 0]

\* x/100.0, kept exact as whole units and hundredths
DivideBy100(x) == [has |-> TRUE, whole |-> x \div 100, frac |-> x % 100]
\* a key missing from the readings dictionary / a None reading
NoReading == [has |-> FALSE, whole |-> 0, frac |-> 0]

(***************************************************************************)
(* Decoder output.  A line is the text the decoder wrote; JsonLoads is     *)
(* json.loads on it.  A decoded value is "object" (a dict, with or without *)
(* the "Message" key) or "number" (JSON that is not an object).            *)
(***************************************************************************)
Message(id, eid, cons) ==
    [shape |-> "object", hasMessage |-> TRUE,
     ID |-> id, EndpointID |-> eid, Consumption |-> cons]
NoMessageObject ==
    [shape |-> "object", hasMessage |-> FALSE,
     ID |-> Absent, EndpointID |-> Absent, Consumption |-> Absent]
JsonNumber ==
    [shape |-> "number", hasMessage |-> FALSE,
     ID |-> Absent, EndpointID |-> Absent, Consumption |-> Absent]

\* the JSON texts of the model and what they decode to
Decoded ==
    ("42" :> JsonNumber)
 @@ ("{\"Time\":\"t\"}" :> NoMessageObject)
 @@ ("{\"Message\":{\"ID\":123,\"Consumption\":4500}}"
        :> Message(PyInt(123), Absent, PyInt(4500)))
 @@ ("{\"Message\":{\"ID\":\"123\",\"Consumption\":\"4500\"}}"
        :> Message(PyStr("123"), Absent, PyStr("4500")))
 @@ ("{\"Message\":{\"ID\":999,\"Consumption\":4500}}"
        :> Message(PyInt(999), Absent, PyInt(4500)))
 @@ ("{\"Message\":{\"ID\":123}}"
        :> Message(PyInt(123), Absent, Absent))
 @@ ("{\"Message\":{\"ID\":123,\"Consumption\":\"abc\"}}"
        :> Message(PyInt(123), Absent, PyStr("abc")))
 @@ ("{\"Message\":{\"ID\":123,\"Consumption\":null}}"
        :> Message(PyInt(123), Absent, PyNone))
 @@ ("{\"Message\":{\"EndpointID\":456,\"Consumption\":1234}}"
        :> Message(Absent, PyInt(456), PyInt(1234)))
 @@ ("{\"Message\":{\"EndpointID\":456}}"
        :> Message(Absent, PyInt(456), Absent))
 @@ ("{\"Message\":{\"EndpointID\":456,\"Consumption\":\"abc\"}}"
        :> Message(Absent, PyInt(456), PyStr("abc")))
 @@ ("{\"Message\":{\"ID\":123,\"EndpointID\":456,\"Consumption\":4500}}"
        :> Message(PyInt(123), PyInt(456), PyInt(4500)))

\* lines that are not JSON
Malformed == {"not json"}

\* what a decoder process may write, one line per readline()
Lines == DOMAIN Decoded \cup Malformed

\* json.loads replaced by a decoder that never raises and yields an empty
\* object for text that is not JSON
JsonLoadsNeverRaises(text) ==
    [exc |-> "",
     d |-> IF text \in DOMAIN Decoded THEN Decoded[text] ELSE NoMessageObject]

\* json.loads(output): the decoded value, or ValueError
JsonLoads(text) ==
    IF text \in DOMAIN Decoded
    THEN [exc |-> "", d |-> Decoded[text]]
    ELSE [exc |-> "ValueError", d |-> JsonNumber]

\* p.stdout of Popen(..., stdout=PIPE) is a binary stream: readline() returns
\* bytes, and b'' at end of file
ReadlineResult(text) == [type |-> "bytes", text |-> text]
\* the str literal ''
EmptyStr == [type |-> "str", text |-> ""]
\* nothing read yet
NoOutput == [type |-> "none", text |-> ""]

\* output == '' and p.poll() is not None
EofAndExited(out, proc) == out = EmptyStr /\ proc \in {"exited", "killed"}

\* if output:
Truthy(out) == out.text # ""

(***************************************************************************)
(* State.                                                                  *)
(***************************************************************************)
VARIABLES
    \* configuration (command line)
    interval, r, meter_client,
    electric_meter_id, gas_meter_id, water_meter_id,
    \* __main__ loop
    pc, beat, stamp, td, sleeptime, crash,
    \* locals of __get_gas_and_electric_reading
    le, lg,
    \* the dictionary get_gas_and_electric_reading returned in this tick, and
    \* the tags dict the caller handed to the read operation last called
    readings, tags,
    \* get_values: the script it runs in, position and locals, the fields seen
    \* in the lines read by the current call, and the value it returned
    script, wpc, foundH, foundT, humidity, temperatureC, observed, values,
    \* get_rtl_values
    rpc, msgtype, filterids, found, result, output, p,
    \* the decoder processes
    emitted, nalive,
    \* history: "parse error" messages printed by the current call, processes
    \* spawned and batches written in the current tick, ticks that reached the
    \* water test and ticks on which do_water_meter_reading was called, value
    \* returned to a direct caller of get_rtl_values
    parseErrors, spawns, written, waterChecks, waterCalls, returned,
    \* history: the read operations the main loop called in the current tick,
    \* in order, each with the timestamp it was given
    calls

config == <<interval, r, meter_client,
            electric_meter_id, gas_meter_id, water_meter_id>>
mainv == <<pc, beat, stamp, td, sleeptime, crash>>
gev == <<le, lg>>
opv == <<readings, tags>>
weatherv == <<script, wpc, foundH, foundT, humidity, temperatureC, observed,
              values>>
readerv == <<rpc, msgtype, filterids, found, result, output, p>>
procv == <<emitted, nalive>>
histv == <<parseErrors, spawns, written, waterChecks, waterCalls, returned>>
vars == <<config, mainv, gev, opv, weatherv, readerv, procv, histv, calls>>

\* d = {}: the readings dictionary without a key
EmptyDict == [gas |-> NoReading, electric |-> NoReading]

\* the tags the main loop passes to every read: {'hostname': hostname}
BaseTags == [k \in {"hostname"} |-> PyStr("host")]

\* get_values returned None
NoValues == [has |-> FALSE]

\* a call of a read operation by the main loop, with its timestamp argument
Call(op, timestamp) == [op |-> op, timestamp |-> timestamp]

\* a local that has not been assigned
Unbound == [bound |-> FALSE, v |-> <<>>]
Bound(v) == [bound |-> TRUE, v |-> v]
NoCrash == [exc |-> "", at |-> 0]

\* --interval values (minutes)
Intervals == {5, 60, 120}
\* durations of a tick's reads (seconds)
Elapsed == {0, 300, 301, 3600, 9000}

ElectricIds == {PyNone, PyStr("123")}
GasIds == {PyNone, PyStr("456")}
WaterIds == {PyNone, PyStr("789")}

\* the state common to every start: nothing running, nothing read
Quiet ==
    /\ beat = 0 /\ stamp = 0 /\ td = 0 /\ sleeptime = 0 /\ crash = NoCrash
    /\ le = Unbound /\ lg = Unbound
    /\ readings = EmptyDict /\ tags = BaseTags
    /\ wpc = "idle" /\ foundH = 0 /\ foundT = 0
    /\ humidity = 0 /\ temperatureC = 0
    /\ observed = {} /\ values = NoValues
    /\ rpc = "idle" /\ msgtype = "" /\ filterids = <<>> /\ found = 0
    /\ result = <<>> /\ output = NoOutput /\ p = "none"
    /\ emitted = 0 /\ nalive = 0
    /\ parseErrors = 0 /\ spawns = <<>> /\ written = <<>>
    /\ calls = <<>>
    /\ waterChecks = {} /\ waterCalls = {} /\ returned = <<>>

(***************************************************************************)
(* rtl.get_rtl_values(msgtype, filterids)                                  *)
(***************************************************************************)
\* entry of a call: lines 219-226
StartReader(mt, ids) ==
    /\ rpc' = "popen"
    /\ msgtype' = mt
    /\ filterids' = ids
    /\ found' = 0
    /\ result' = <<>>
    /\ output' = NoOutput
    /\ parseErrors' = 0

\* after line 245: the call has returned and its locals are gone
ReaderDone ==
    /\ rpc' = "idle"
    /\ msgtype' = ""
    /\ filterids' = <<>>
    /\ found' = 0
    /\ result' = <<>>
    /\ output' = NoOutput
    /\ p' = "none"
    /\ parseErrors' = 0

\* line 228: p = subprocess.Popen(command_line, stdout=PIPE, stderr=PIPE)
Popen ==
    /\ rpc = "popen"
    /\ p' = "running"
    /\ emitted' = 0
    /\ nalive' = nalive + 1
    /\ spawns' = Append(spawns, msgtype)
    /\ rpc' = "while"
    /\ UNCHANGED <<config, calls, opv, weatherv, mainv, gev, msgtype, filterids, found, result,
                   output, parseErrors, written, waterChecks, waterCalls,
                   returned>>

\* the loop test letting the loop run while found equals the number of ids
LoopTestOffByOne ==
    /\ rpc = "while"
    /\ rpc' = IF found <= Len(filterids) THEN "readline" ELSE "kill"
    /\ UNCHANGED <<config, calls, opv, weatherv, mainv, gev, msgtype, filterids, found, result,
                   output, p, procv, histv>>

\* line 229: while found < len(filterids): ... else: (line 242)
LoopTest ==
    /\ rpc = "while"
    /\ rpc' = IF found < Len(filterids) THEN "readline" ELSE "kill"
    /\ UNCHANGED <<config, calls, opv, weatherv, mainv, gev, msgtype, filterids, found, result,
                   output, p, procv, histv>>

\* where the loop goes after readline(): lines 232-233
AfterReadline(out, proc) == IF EofAndExited(out, proc) THEN "return" ELSE "ifoutput"

\* lines 230-233: output = p.stdout.readline(), which blocks until the decoder
\* writes a line or closes its stdout; then the end-of-stream test
ReadLine ==
    /\ rpc = "readline"
    /\ \/ /\ p = "running"
          /\ emitted < MaxLines
          /\ \E text \in Lines : output' = ReadlineResult(text)
          /\ emitted' = emitted + 1
       \/ /\ p = "exited"
          /\ output' = ReadlineResult("")
          /\ UNCHANGED emitted
    /\ rpc' = AfterReadline(output', p)
    /\ UNCHANGED <<config, calls, opv, weatherv, mainv, gev, msgtype, filterids, found, result, p,
                   nalive, histv>>

\* the identifier a message carries for a decoder message type
MessageId(m, mt) == IF mt = "scm+" THEN m.EndpointID ELSE m.ID

\* the loop body with the check the reader does not make: a decoded message
\* is recorded only when its identifier is requested and not yet recorded
ProcessMatching ==
    /\ rpc = "ifoutput"
    /\ IF ~Truthy(output)
       THEN UNCHANGED <<result, found, parseErrors>>
       ELSE IF JsonLoads(output.text).exc = ""
       THEN LET d == JsonLoads(output.text).d IN
            /\ IF /\ MessageId(d, msgtype) # Absent
                  /\ \E i \in 1..Len(filterids) :
                        filterids[i] = Str(MessageId(d, msgtype))
                  /\ \A j \in 1..Len(result) :
                        MessageId(result[j], msgtype) # MessageId(d, msgtype)
               THEN /\ result' = Append(result, d)
                    /\ found' = found + 1
               ELSE UNCHANGED <<result, found>>
            /\ UNCHANGED parseErrors
       ELSE /\ parseErrors' = parseErrors + 1
            /\ UNCHANGED <<result, found>>
    /\ rpc' = "while"
    /\ UNCHANGED <<config, calls, opv, weatherv, mainv, gev, msgtype, filterids, output, p, procv,
                   spawns, written, waterChecks, waterCalls, returned>>

\* lines 234-241: if output: try json.loads, append, count; a ValueError is
\* printed and the loop continues
Process ==
    /\ rpc = "ifoutput"
    /\ IF ~Truthy(output)
       THEN UNCHANGED <<result, found, parseErrors>>
       ELSE IF JsonLoads(output.text).exc = ""
       THEN /\ result' = Append(result, JsonLoads(output.text).d)
            /\ found' = found + 1
            /\ UNCHANGED parseErrors
       ELSE /\ parseErrors' = parseErrors + 1
            /\ UNCHANGED <<result, found>>
    /\ rpc' = "while"
    /\ UNCHANGED <<config, calls, opv, weatherv, mainv, gev, msgtype, filterids, output, p, procv,
                   spawns, written, waterChecks, waterCalls, returned>>

\* the else branch of the loop without the kill
KillSkipped ==
    /\ rpc = "kill"
    /\ rpc' = "return"
    /\ UNCHANGED <<config, calls, opv, weatherv, mainv, gev, msgtype, filterids, found, result,
                   output, p, procv, histv>>

\* line 243: p.kill()
Kill ==
    /\ rpc = "kill"
    /\ p' = "killed"
    /\ nalive' = IF p = "running" THEN nalive - 1 ELSE nalive
    /\ rpc' = "return"
    /\ UNCHANGED <<config, calls, opv, weatherv, mainv, gev, msgtype, filterids, found, result,
                   output, emitted, histv>>

\* the decoder process ends by itself (rtlamr -single, a lost connection): its
\* stdout is closed and readline() returns b'' from then on
DecoderExit ==
    /\ p = "running"
    /\ rpc \in {"while", "readline", "ifoutput", "kill"}
    /\ p' = "exited"
    /\ nalive' = nalive - 1
    /\ UNCHANGED <<config, calls, opv, weatherv, mainv, gev, rpc, msgtype, filterids, found, result,
                   output, emitted, histv>>

ReaderNext == Popen \/ LoopTest \/ ReadLine \/ Process \/ Kill \/ DecoderExit

(***************************************************************************)
(* A direct call of the public method get_rtl_values.                      *)
(***************************************************************************)
MsgTypes == {"scm", "scm+", "r900bcd"}
FilterIdValues == {"123", "456"}
FilterIdLists ==
    UNION {[1..n -> FilterIdValues] : n \in 0..MaxFilterIds}

DirectCall ==
    /\ pc = "direct"
    /\ rpc = "idle"
    /\ \E mt \in MsgTypes, ids \in FilterIdLists : StartReader(mt, ids)
    /\ spawns' = <<>>
    /\ returned' = <<>>
    /\ UNCHANGED <<config, calls, opv, weatherv, mainv, gev, p, procv, written, waterChecks,
                   waterCalls>>

\* line 245: return result; the locals of the call are gone
DirectReturn ==
    /\ pc = "direct"
    /\ rpc = "return"
    /\ returned' = result
    /\ ReaderDone
    /\ UNCHANGED <<config, calls, opv, weatherv, mainv, gev, procv, spawns, written, waterChecks,
                   waterCalls>>

InitReader ==
    /\ Quiet
    /\ script = "rtl.py"
    /\ pc = "direct"
    /\ interval = 5 /\ r = TRUE /\ meter_client = FALSE
    /\ electric_meter_id = PyNone /\ gas_meter_id = PyNone
    /\ water_meter_id = PyNone

NextReader == DirectCall \/ DirectReturn \/ ReaderNext

SpecReader == InitReader /\ [][NextReader]_vars

(***************************************************************************)
(* rtl.__get_gas_and_electric_reading: lines 284-305, the loop over the    *)
(* decoded messages.  Each operator returns the exception that leaves the  *)
(* function (exc, raised at source line at) or the dictionary d.           *)
(***************************************************************************)
\* truth value of a meter id: None and '' are false
PyTruthy(id) == id.t = "str" /\ id.s # ""

\* item["Message"]: a TypeError when item is no dict, a KeyError without the key
MessageExc(item) ==
    IF item.shape # "object" THEN "TypeError"
    ELSE IF ~item.hasMessage THEN "KeyError"
    ELSE ""

\* lines 287-294 and 296-303 (and 314-315): raw = item["Message"]["Consumption"];
\* float(raw)/100.0.  KeyError and ValueError are caught by the callers' except
\* clauses, anything else leaves the function
TryReading(item) ==
    IF item.Consumption = Absent
    THEN [exc |-> "KeyError", v |-> NoReading]
    ELSE IF Float(item.Consumption).exc # ""
    THEN [exc |-> Float(item.Consumption).exc, v |-> NoReading]
    ELSE [exc |-> "", v |-> DivideBy100(Float(item.Consumption).x)]

Caught == {"KeyError", "ValueError"}

\* line 286: the gas test; line 295: the electric test
IsGas(item, gid) ==
    PyTruthy(gid) /\ item.EndpointID # Absent /\ Str(item.EndpointID) = Str(gid)
IsElectric(item, eid) ==
    PyTruthy(eid) /\ item.ID # Absent /\ Str(item.ID) = Str(eid)

\* one iteration with the electric test as an if of its own in place of the
\* elif of line 295
ExtractItemBothBranches(item, d, gid, eid) ==
    IF (PyTruthy(gid) \/ PyTruthy(eid)) /\ MessageExc(item) # ""
    THEN [exc |-> MessageExc(item),
          at |-> IF PyTruthy(gid) THEN 286 ELSE 295, d |-> d]
    ELSE LET t == TryReading(item)
             g == IF ~IsGas(item, gid) \/ t.exc \in Caught
                  THEN [exc |-> "", at |-> 0, d |-> d]
                  ELSE IF t.exc = ""
                  THEN [exc |-> "", at |-> 0, d |-> [d EXCEPT !.gas = t.v]]
                  ELSE [exc |-> t.exc, at |-> 289, d |-> d]
         IN  IF g.exc # "" \/ ~IsElectric(item, eid) \/ t.exc \in Caught
             THEN g
             ELSE IF t.exc = ""
             THEN [exc |-> "", at |-> 0, d |-> [g.d EXCEPT !.electric = t.v]]
             ELSE [exc |-> t.exc, at |-> 298, d |-> d]

\* one iteration of the loop of line 285
ExtractItem(item, d, gid, eid) ==
    IF (PyTruthy(gid) \/ PyTruthy(eid)) /\ MessageExc(item) # ""
    THEN [exc |-> MessageExc(item),
          at |-> IF PyTruthy(gid) THEN 286 ELSE 295, d |-> d]
    ELSE IF IsGas(item, gid)
    THEN LET t == TryReading(item) IN
         IF t.exc = "" THEN [exc |-> "", at |-> 0, d |-> [d EXCEPT !.gas = t.v]]
         ELSE IF t.exc \in Caught THEN [exc |-> "", at |-> 0, d |-> d]
         ELSE [exc |-> t.exc, at |-> 289, d |-> d]
    ELSE IF IsElectric(item, eid)
    THEN LET t == TryReading(item) IN
         IF t.exc = "" THEN [exc |-> "", at |-> 0, d |-> [d EXCEPT !.electric = t.v]]
         ELSE IF t.exc \in Caught THEN [exc |-> "", at |-> 0, d |-> d]
         ELSE [exc |-> t.exc, at |-> 298, d |-> d]
    ELSE [exc |-> "", at |-> 0, d |-> d]

RECURSIVE ExtractFrom(_, _, _, _)
ExtractFrom(l, d, gid, eid) ==
    IF l = <<>> THEN [exc |-> "", at |-> 0, d |-> d]
    ELSE LET one == ExtractItem(Head(l), d, gid, eid) IN
         IF one.exc # "" THEN one
         ELSE ExtractFrom(Tail(l), one.d, gid, eid)

\* lines 282-305: l = le + lg, then the loop.  A local that was never
\* assigned raises UnboundLocalError at line 282
MergeAndExtract(el, gl, gid, eid) ==
    IF ~el.bound \/ ~gl.bound
    THEN [exc |-> "UnboundLocalError", at |-> 282, d |-> EmptyDict]
    ELSE ExtractFrom(el.v \o gl.v, EmptyDict, gid, eid)

(***************************************************************************)
(* rtl.do_gas_electric_meter_reading: lines 172-210, the batch.            *)
(***************************************************************************)
\* tags[k] = v on a dict
WithTag(tgs, k, v) ==
    [x \in DOMAIN tgs \cup {k} |-> IF x = k THEN v ELSE tgs[x]]

MeterTags(tgs, id, units) ==
    WithTag(WithTag(WithTag(tgs, "meterid", id), "units", PyStr(units)),
            "version", PyInt(1))

Point(measurement, tgs, time, reading) ==
    [measurement |-> measurement, tags |-> tgs, time |-> time,
     fields |-> [reading |-> reading]]

\* the batch with one dict shared by both points in place of tags.copy():
\* the electric assignments show in the gas point too
GasElectricSeriesSharedTags(rd, gid, eid, time, tgs) ==
    LET gt == MeterTags(tgs, gid, "ccf")
        et == MeterTags(gt, eid, "kwh")
    IN  (IF rd.gas.has
         THEN <<Point("gas", IF rd.electric.has THEN et ELSE gt, time, rd.gas)>>
         ELSE <<>>)
        \o
        (IF rd.electric.has
         THEN <<Point("electric", et, time, rd.electric)>>
         ELSE <<>>)

\* lines 172-205
GasElectricSeries(rd, gid, eid, time, tgs) ==
    (IF rd.gas.has
     THEN <<Point("gas", MeterTags(tgs, gid, "ccf"), time, rd.gas)>>
     ELSE <<>>)
    \o
    (IF rd.electric.has
     THEN <<Point("electric", MeterTags(tgs, eid, "kwh"), time,
                  rd.electric)>>
     ELSE <<>>)

\* one write_points call for each point in place of one for the series
WriteGasElectricPerPoint(client, series) ==
    IF client
    THEN written \o [i \in 1..Len(series) |-> <<series[i]>>]
    ELSE written

\* the write without the test of line 208
WriteGasElectricWithoutClient(client, series) == Append(written, series)

\* lines 208-210: influxclient.write_points(series) when there is a client
WriteGasElectric(client, series) ==
    IF client THEN Append(written, series) ELSE written

(***************************************************************************)
(* rtl.get_water_reading (lines 313-326) on the list get_rtl_values        *)
(* returned, and the batch of do_water_meter_reading (lines 144-165).      *)
(***************************************************************************)
WaterReading(d) ==
    IF d = <<>> THEN [exc |-> "", at |-> 0, v |-> NoReading]
    ELSE IF d[1].shape # "object" THEN [exc |-> "TypeError", at |-> 314, v |-> NoReading]
    ELSE IF ~d[1].hasMessage THEN [exc |-> "", at |-> 0, v |-> NoReading]
    ELSE LET t == TryReading(d[1]) IN
         IF t.exc = "" THEN [exc |-> "", at |-> 0, v |-> t.v]
         ELSE IF t.exc \in Caught THEN [exc |-> "", at |-> 0, v |-> NoReading]
         ELSE [exc |-> t.exc, at |-> 315, v |-> NoReading]

\* lines 144-154: the caller's dict after the call: do_water_meter_reading
\* returns before touching it without a reading, and otherwise assigns
\* meterid, units and version in the dict it was given
WaterTags(reading, wid, tgs) ==
    IF reading.has THEN MeterTags(tgs, wid, "hcf") ELSE tgs

\* lines 149-161: the one point, whose tags are the caller's dict
WaterSeries(reading, wid, time, tgs) ==
    <<Point("water", MeterTags(tgs, wid, "hcf"), time, reading)>>

(***************************************************************************)
(* The __main__ loop, lines 369-390.                                       *)
(***************************************************************************)
\* the water test counting ticks instead of minutes
WaterDueEverySixthTick(b, i) == b % 6 = 0

\* line 378: (beat * int(args.interval)) % (6 * 60) == 0
WaterDue(b, i) == (b * i) % (6 * 60) = 0

\* the sleep time without the test of line 384
SleepTimeUnclamped(i, elapsed) == i * 60 - elapsed

\* lines 383-387
SleepTime(i, elapsed) ==
    IF i * 60 < elapsed THEN 0 ELSE i * 60 - elapsed

\* lines 371-376: the tick begins; stamp is the time of its start (tick k's
\* start time is written k)
Tick ==
    /\ pc = "tick"
    /\ beat < MaxBeat
    /\ stamp' = beat
    /\ spawns' = <<>>
    /\ written' = <<>>
    /\ readings' = EmptyDict
    /\ calls' = <<>>
    /\ pc' = IF r THEN "gas_electric" ELSE "t2"
    /\ UNCHANGED <<config, tags, weatherv, beat, td, sleeptime, crash, gev, readerv, procv,
                   parseErrors, waterChecks, waterCalls, returned>>

\* lines 377, 170, 264, 269-279: the call arrives in
\* __get_gas_and_electric_reading, which returns {} without ids, reads the
\* electric meter when it has an id, and goes on to the gas meter otherwise
GasElectricBegin ==
    /\ pc = "gas_electric"
    /\ rpc = "idle"
    /\ tags' = BaseTags
    /\ readings' = EmptyDict
    /\ calls' = Append(calls, Call("do_gas_electric_meter_reading", stamp))
    /\ IF ~PyTruthy(gas_meter_id) /\ ~PyTruthy(electric_meter_id)
       THEN /\ written' = WriteGasElectric(meter_client,
                    GasElectricSeries(EmptyDict, gas_meter_id,
                                      electric_meter_id, stamp, BaseTags))
            /\ pc' = "water_test"
            /\ UNCHANGED <<readerv, parseErrors>>
       ELSE IF PyTruthy(electric_meter_id)
       THEN /\ StartReader("scm", <<Str(electric_meter_id)>>)
            /\ pc' = "electric_read"
            /\ UNCHANGED <<p, written>>
       ELSE /\ StartReader("scm+", <<Str(gas_meter_id)>>)
            /\ pc' = "gas_read"
            /\ UNCHANGED <<p, written>>
    /\ UNCHANGED <<config, weatherv, beat, stamp, td, sleeptime, crash, gev,
                   procv, spawns, waterChecks, waterCalls, returned>>

\* lines 279-281: le = get_rtl_values("scm", elec_ids) has returned
ElectricRead ==
    /\ pc = "electric_read"
    /\ rpc = "return"
    /\ le' = Bound(result)
    /\ IF PyTruthy(gas_meter_id)
       THEN /\ StartReader("scm+", <<Str(gas_meter_id)>>)
            /\ pc' = "gas_read"
            /\ UNCHANGED p
       ELSE /\ ReaderDone
            /\ pc' = "extract"
    /\ UNCHANGED <<config, calls, opv, weatherv, beat, stamp, td, sleeptime, crash, lg, procv,
                   spawns, written, waterChecks, waterCalls, returned>>

\* line 281: lg = get_rtl_values("scm+", gas_ids) has returned
GasRead ==
    /\ pc = "gas_read"
    /\ rpc = "return"
    /\ lg' = Bound(result)
    /\ ReaderDone
    /\ pc' = "extract"
    /\ UNCHANGED <<config, calls, opv, weatherv, beat, stamp, td, sleeptime, crash, le, procv,
                   spawns, written, waterChecks, waterCalls, returned>>

\* lines 282-305 and 172-210: merge, extract, build the batch, write it.  An
\* exception leaves every function up to the main program, which ends
GasElectricExtract ==
    /\ pc = "extract"
    /\ LET x == MergeAndExtract(le, lg, gas_meter_id, electric_meter_id) IN
       IF x.exc # ""
       THEN /\ crash' = [exc |-> x.exc, at |-> x.at]
            /\ pc' = "crashed"
            /\ UNCHANGED <<gev, readings, written>>
       ELSE /\ readings' = x.d
            /\ written' = WriteGasElectric(meter_client,
                    GasElectricSeries(x.d, gas_meter_id, electric_meter_id,
                                      stamp, BaseTags))
            /\ pc' = "water_test"
            /\ le' = Unbound
            /\ lg' = Unbound
            /\ UNCHANGED crash
    /\ UNCHANGED <<config, calls, tags, weatherv, beat, stamp, td, sleeptime, readerv,
                   procv, parseErrors, spawns, waterChecks, waterCalls,
                   returned>>

\* lines 378-379, 143, 309-312: the water test; do_water_meter_reading is
\* called when it holds, and returns at once without a water id
WaterTest ==
    /\ pc = "water_test"
    /\ waterChecks' = waterChecks \cup {beat}
    /\ IF ~WaterDue(beat, interval)
       THEN /\ pc' = "t2"
            /\ UNCHANGED <<waterCalls, calls, tags, readerv, parseErrors>>
       ELSE /\ waterCalls' = waterCalls \cup {beat}
            /\ calls' = Append(calls, Call("do_water_meter_reading", stamp))
            /\ tags' = BaseTags
            /\ IF water_meter_id = PyNone
               THEN /\ pc' = "t2"
                    /\ UNCHANGED <<readerv, parseErrors>>
               ELSE /\ StartReader("r900bcd", <<Str(water_meter_id)>>)
                    /\ pc' = "water_read"
                    /\ UNCHANGED p
    /\ UNCHANGED <<config, readings, weatherv, beat, stamp, td, sleeptime,
                   crash, gev, procv, spawns, written, returned>>

\* lines 312-326 and 144-165: get_rtl_values has returned to
\* get_water_reading
WaterRead ==
    /\ pc = "water_read"
    /\ rpc = "return"
    /\ LET x == WaterReading(result) IN
       IF x.exc # ""
       THEN /\ crash' = [exc |-> x.exc, at |-> x.at]
            /\ pc' = "crashed"
            /\ UNCHANGED <<readerv, parseErrors, written, tags>>
       ELSE /\ ReaderDone
            /\ pc' = "t2"
            /\ UNCHANGED crash
            /\ tags' = WaterTags(x.v, water_meter_id, tags)
            /\ written' =
                 IF x.v.has /\ meter_client
                 THEN Append(written,
                             WaterSeries(x.v, water_meter_id, stamp, tags))
                 ELSE written
    /\ UNCHANGED <<config, calls, readings, weatherv, beat, stamp, td, sleeptime, gev,
                   procv, spawns, waterChecks, waterCalls, returned>>

\* lines 381-388: the time the reads took, and the time left to sleep
T2 ==
    /\ pc = "t2"
    /\ \E elapsed \in Elapsed :
          /\ td' = elapsed
          /\ sleeptime' = SleepTime(interval, elapsed)
    /\ pc' = "sleep"
    /\ UNCHANGED <<config, calls, opv, weatherv, beat, stamp, crash, gev, readerv, procv, histv>>

\* the end of an iteration counting only the ticks that got a reading
SleepCountsReadings ==
    /\ pc = "sleep"
    /\ beat' = IF readings = EmptyDict THEN beat ELSE beat + 1
    /\ td' = 0
    /\ sleeptime' = 0
    /\ pc' = "tick"
    /\ UNCHANGED <<config, calls, opv, weatherv, stamp, crash, gev, readerv, procv, histv>>

\* lines 389-390: time.sleep(sleeptime); beat += 1.  td and sleeptime are not
\* read again before lines 382-383 assign them: they are cleared here
Sleep ==
    /\ pc = "sleep"
    /\ beat' = beat + 1
    /\ td' = 0
    /\ sleeptime' = 0
    /\ pc' = "tick"
    /\ UNCHANGED <<config, calls, opv, weatherv, stamp, crash, gev, readerv, procv, histv>>

\* lines 348-355 and 369: r exists with --rtltcp_ip, the client with --meter_db
Init ==
    /\ Quiet
    /\ script = "rtl.py"
    /\ pc = "tick"
    /\ interval \in Intervals
    /\ r \in BOOLEAN
    /\ meter_client \in (IF r THEN BOOLEAN ELSE {FALSE})
    /\ electric_meter_id \in (IF r THEN ElectricIds ELSE {PyNone})
    /\ gas_meter_id \in (IF r THEN GasIds ELSE {PyNone})
    /\ water_meter_id \in (IF r THEN WaterIds ELSE {PyNone})

Next ==
    \/ Tick \/ GasElectricBegin \/ ElectricRead \/ GasRead
    \/ GasElectricExtract \/ WaterTest \/ WaterRead \/ T2 \/ Sleep
    \/ ReaderNext

Spec == Init /\ [][Next]_vars

\* the main loop never stops of itself: a step the program can take is taken
FairSpec == Spec /\ WF_vars(Next)

(***************************************************************************)
(* get_values (rtl.py lines 52-97, lacrosse.py lines 51-96) and             *)
(* do_weather_reading (rtl.py lines 99-128; the body of the main loop of    *)
(* lacrosse.py, lines 123-154).  The main loop of rtl.py has its call of    *)
(* do_weather_reading commented out (line 374): the functions are called    *)
(* directly.                                                                *)
(***************************************************************************)
\* what a line of rtl_433 -F json decodes to: whether it is an object, and
\* its humidity and temperature_C members
WeatherObject(h, t) == [shape |-> "object", humidity |-> h, temperature_C |-> t]
WeatherNumber == [shape |-> "number", humidity |-> Absent, temperature_C |-> Absent]

WeatherDecoded ==
    ("42" :> WeatherNumber)
 @@ ("{\"model\":\"x\"}" :> WeatherObject(Absent, Absent))
 @@ ("{\"humidity\":45,\"temperature_C\":20}"
        :> WeatherObject(PyInt(45), PyInt(20)))
 @@ ("{\"humidity\":45}" :> WeatherObject(PyInt(45), Absent))
 @@ ("{\"temperature_C\":20}" :> WeatherObject(Absent, PyInt(20)))
 @@ ("{\"humidity\":\"abc\"}" :> WeatherObject(PyStr("abc"), Absent))
 @@ ("{\"humidity\":null,\"temperature_C\":20}"
        :> WeatherObject(PyNone, PyInt(20)))

WeatherLines == DOMAIN WeatherDecoded \cup Malformed

\* line 72: json.loads(output)
WeatherJsonLoads(text) ==
    IF text \in DOMAIN WeatherDecoded
    THEN [exc |-> "", d |-> WeatherDecoded[text]]
    ELSE [exc |-> "ValueError", d |-> WeatherNumber]

\* line 67 (lacrosse.py line 66): p.stdout.readline() returns bytes under
\* python3, the interpreter of rtl.py, and str under python 2, the
\* interpreter of lacrosse.py
WeatherReadlineResult(text) ==
    [type |-> IF script = "rtl.py" THEN "bytes" ELSE "str", text |-> text]

\* lines 40-46: the dew point of a temperature and a relative humidity (a
\* logarithm: the value is left as the application)
dewpoint(Tc, RH) == [Tc |-> Tc, RH |-> RH]

\* lines 48-50: Tc * (9.0/5.0) + 32.0, in tenths of a degree
CtoF(Tc) == Tc * 18 + 320

\* lines 84-95: the dictionary get_values returns; dewF is CtoF of the dew
\* point
WeatherValues(tc, rh) ==
    [has |-> TRUE, tempC |-> tc, tempF |-> CtoF(tc), rh |-> rh,
     dewC |-> dewpoint(tc, rh), dewF |-> [CtoF |-> dewpoint(tc, rh)]]

\* lines 73-78 on a decoded line d: the locals afterwards, and the exception
\* that ended the try block.  The flag is set before float() is called
WeatherItem(d, fH, h, fT, t) ==
    IF d.shape # "object"
    THEN [exc |-> "TypeError", at |-> 73, foundH |-> fH, humidity |-> h,
          foundT |-> fT, temperatureC |-> t]
    ELSE LET hasH == d.humidity # Absent
             hasT == d.temperature_C # Absent
             fH1 == IF hasH THEN 1 ELSE fH
         IN  IF hasH /\ Float(d.humidity).exc # ""
             THEN [exc |-> Float(d.humidity).exc, at |-> 75, foundH |-> fH1,
                   humidity |-> h, foundT |-> fT, temperatureC |-> t]
             ELSE LET h1 == IF hasH THEN Float(d.humidity).x ELSE h IN
                  IF hasT /\ Float(d.temperature_C).exc # ""
                  THEN [exc |-> Float(d.temperature_C).exc, at |-> 78,
                        foundH |-> fH1, humidity |-> h1, foundT |-> 1,
                        temperatureC |-> t]
                  ELSE [exc |-> "", at |-> 0, foundH |-> fH1, humidity |-> h1,
                        foundT |-> IF hasT THEN 1 ELSE fT,
                        temperatureC |->
                            IF hasT THEN Float(d.temperature_C).x ELSE t]

\* lines 107-124: the three points, all with the caller's tags and timestamp
WeatherPoint(measurement, tgs, time, fields) ==
    [measurement |-> measurement, tags |-> tgs, time |-> time,
     fields |-> fields]

WeatherSeries(v, time, tgs) ==
    << WeatherPoint("temperature", tgs, time,
                    [tempF |-> v.tempF, tempC |-> v.tempC]),
       WeatherPoint("humidity", tgs, time, [rh |-> v.rh]),
       WeatherPoint("dewpoint", tgs, time, [dewF |-> v.dewF, dewC |-> v.dewC]) >>

\* lines 101, 58-63 (lacrosse.py lines 124-126): do_weather_reading calls
\* get_values, whose locals start at 0
WeatherCall ==
    /\ pc = "weather"
    /\ wpc = "idle"
    /\ wpc' = "popen"
    /\ humidity' = 0 /\ temperatureC' = 0 /\ foundH' = 0 /\ foundT' = 0
    /\ observed' = {}
    /\ values' = NoValues
    /\ written' = <<>>
    /\ UNCHANGED <<config, calls, mainv, gev, opv, script, readerv, procv,
                   parseErrors, spawns, waterChecks, waterCalls, returned>>

\* line 65: p = subprocess.Popen(command_line, ...)
WeatherPopen ==
    /\ wpc = "popen"
    /\ p' = "running"
    /\ emitted' = 0
    /\ nalive' = nalive + 1
    /\ wpc' = "while"
    /\ UNCHANGED <<config, calls, mainv, gev, opv, script, foundH, foundT, humidity,
                   temperatureC, observed, values, rpc, msgtype, filterids,
                   found, result, output, histv>>

\* line 66: while foundH == 0 or foundT == 0: ... else: (line 81)
WeatherLoopTest ==
    /\ wpc = "while"
    /\ wpc' = IF foundH = 0 \/ foundT = 0 THEN "readline" ELSE "kill"
    /\ UNCHANGED <<config, calls, mainv, gev, opv, script, foundH, foundT, humidity,
                   temperatureC, observed, values, readerv, procv, histv>>

\* lines 67-69: readline() blocks until the decoder writes a line or closes
\* its stdout; the break leads to the return None of line 97
WeatherReadLine ==
    /\ wpc = "readline"
    /\ \/ /\ p = "running"
          /\ emitted < MaxWeatherLines
          /\ \E text \in WeatherLines : output' = WeatherReadlineResult(text)
          /\ emitted' = emitted + 1
       \/ /\ p = "exited"
          /\ output' = WeatherReadlineResult("")
          /\ UNCHANGED emitted
    /\ wpc' = IF EofAndExited(output', p) THEN "return" ELSE "ifoutput"
    /\ UNCHANGED <<config, calls, mainv, gev, opv, script, foundH, foundT, humidity,
                   temperatureC, observed, values, rpc, msgtype, filterids,
                   found, result, p, nalive, histv>>

\* lines 70-80: if output: try the line; a ValueError goes on with the loop,
\* another exception leaves get_values and its callers
WeatherProcess ==
    /\ wpc = "ifoutput"
    /\ IF ~Truthy(output) \/ WeatherJsonLoads(output.text).exc # ""
       THEN /\ wpc' = "while"
            /\ UNCHANGED <<foundH, foundT, humidity, temperatureC, observed,
                           pc, crash>>
       ELSE LET d == WeatherJsonLoads(output.text).d
                x == WeatherItem(d, foundH, humidity, foundT, temperatureC)
            IN  /\ observed' = observed
                       \cup (IF d.humidity # Absent THEN {"humidity"} ELSE {})
                       \cup (IF d.temperature_C # Absent
                             THEN {"temperature_C"} ELSE {})
                /\ IF x.exc \in {"", "ValueError"}
                   THEN /\ foundH' = x.foundH /\ humidity' = x.humidity
                        /\ foundT' = x.foundT
                        /\ temperatureC' = x.temperatureC
                        /\ wpc' = "while"
                        /\ UNCHANGED <<pc, crash>>
                   ELSE /\ crash' = [exc |-> x.exc, at |-> x.at]
                        /\ pc' = "crashed"
                        /\ wpc' = "crashed"
                        /\ UNCHANGED <<foundH, foundT, humidity, temperatureC>>
    /\ UNCHANGED <<config, calls, beat, stamp, td, sleeptime, gev, opv, script,
                   values, readerv, procv, histv>>

\* lines 82-95: p.kill() and the dictionary of the readings
WeatherKill ==
    /\ wpc = "kill"
    /\ p' = "killed"
    /\ nalive' = IF p = "running" THEN nalive - 1 ELSE nalive
    /\ values' = WeatherValues(temperatureC, humidity)
    /\ wpc' = "return"
    /\ UNCHANGED <<config, calls, mainv, gev, opv, script, foundH, foundT, humidity,
                   temperatureC, observed, rpc, msgtype, filterids, found,
                   result, output, emitted, histv>>

\* rtl_433 ends by itself (-T 300, a lost connection to rtl_tcp)
WeatherDecoderExit ==
    /\ p = "running"
    /\ wpc \in {"while", "readline", "ifoutput", "kill"}
    /\ p' = "exited"
    /\ nalive' = nalive - 1
    /\ UNCHANGED <<config, calls, mainv, gev, opv, weatherv, rpc, msgtype, filterids,
                   found, result, output, emitted, histv>>

\* lines 102-128 (lacrosse.py lines 127-153): nothing without readings, and
\* otherwise the three points in one write_points call when there is a client
WeatherReturn ==
    /\ pc = "weather"
    /\ wpc = "return"
    /\ written' = IF values.has /\ meter_client
                  THEN Append(written, WeatherSeries(values, stamp, tags))
                  ELSE written
    /\ wpc' = "idle"
    /\ humidity' = 0 /\ temperatureC' = 0 /\ foundH' = 0 /\ foundT' = 0
    /\ output' = NoOutput
    /\ p' = "none"
    /\ UNCHANGED <<config, calls, mainv, gev, opv, script, observed, values, rpc,
                   msgtype, filterids, found, result, procv, parseErrors,
                   spawns, waterChecks, waterCalls, returned>>

\* do_weather_reading(influxclient, timestamp, tags) of rtl.py is called with
\* or without a client; the loop of lacrosse.py always has one
InitWeather ==
    /\ Quiet
    /\ pc = "weather"
    /\ script \in {"rtl.py", "lacrosse.py"}
    /\ meter_client \in (IF script = "rtl.py" THEN BOOLEAN ELSE {TRUE})
    /\ interval = 5 /\ r = FALSE
    /\ electric_meter_id = PyNone /\ gas_meter_id = PyNone
    /\ water_meter_id = PyNone

NextWeather ==
    \/ WeatherCall \/ WeatherPopen \/ WeatherLoopTest \/ WeatherReadLine
    \/ WeatherProcess \/ WeatherKill \/ WeatherDecoderExit \/ WeatherReturn

SpecWeather == InitWeather /\ [][NextWeather]_vars

(***************************************************************************)
(* Properties.                                                             *)
(***************************************************************************)
Range(seq) == {seq[i] : i \in 1..Len(seq)}
Max(a, b) == IF a < b THEN b ELSE a

\* C1 as stated: among the first 12 ticks, do_water_meter_reading is called
\* on tick 0 and tick 6 and on no other tick, whatever the interval.
C1_WaterOnTicks0And6 ==
    \A k \in waterChecks : k < 12 => (k \in waterCalls <=> k \in {0, 6})

\* C1 as amended: every tick on which the reader object exists and the
\* gas/electric read returned reaches the water test, and the water read is
\* called on tick k exactly when k * interval (minutes) is a multiple of 360;
\* with an interval of 60 these are the ticks 0 and 6 of the first 12.
C1_WaterCadence ==
    /\ waterCalls = {k \in waterChecks : (k * interval) % 360 = 0}
    /\ r /\ pc # "crashed" => \A k \in 0..(beat - 1) : k \in waterChecks
    /\ pc \in {"water_read", "t2", "sleep"} /\ r => beat \in waterChecks
    /\ interval = 60 =>
          \A k \in waterChecks : k < 12 => (k \in waterCalls <=> k \in {0, 6})

\* twelve ticks at an interval of 60 minutes: water was read on ticks 0 and 6
C1_Witness ==
    /\ interval = 60 /\ beat = 11 /\ pc = "sleep"
    /\ waterChecks = 0..11 /\ waterCalls = {0, 6}

\* the reader has read end-of-file from a decoder that has exited
AtEndOfStream == output.type = "bytes" /\ output.text = "" /\ p = "exited"

\* C2 as stated: once the decoder's output has ended (end-of-file read, the
\* process exited), get_rtl_values has left its loop and returns what it
\* recorded.
C2_ExhaustionReturns == AtEndOfStream => rpc = "return"

\* C3 as stated: every recorded message carries an identifier of the required
\* set, and no identifier is recorded twice.
C3_OnlyRequiredOnce ==
    /\ \A m \in Range(result) :
          /\ MessageId(m, msgtype) # Absent
          /\ Str(MessageId(m, msgtype)) \in Range(filterids)
    /\ \A i, j \in 1..Len(result) :
          i # j => MessageId(result[i], msgtype) # MessageId(result[j], msgtype)

\* C3 as amended: the reader records every line that parses as JSON, whatever
\* identifier it carries, counting it toward completion, and it reports
\* completion (kills the decoder) once as many messages are recorded as
\* identifiers were required.
C3_RecordsEveryParsedLine ==
    /\ [][rpc = "ifoutput" /\ rpc' # "ifoutput" /\ output.text \in DOMAIN Decoded
            => /\ result' = Append(result, Decoded[output.text])
               /\ found' = found + 1]_vars
    /\ [](rpc = "kill" => Len(result) = Len(filterids))

\* the reader completed on two messages that carry no required identifier
C3_Witness ==
    /\ rpc = "return" /\ p = "killed"
    /\ filterids = <<"123", "456">>
    /\ msgtype = "scm"
    /\ result = <<JsonNumber, JsonNumber>>

\* C4: a line that is not JSON is skipped: the step that handles it leaves
\* result, found and the decoder process as they are and goes back to the
\* loop test, and a call that skipped such lines and returns still returns
\* one decoded message per requested identifier.
C4_MalformedSkipped ==
    /\ [][rpc = "ifoutput" /\ rpc' # "ifoutput" /\ output.text \in Malformed
            => /\ result' = result
               /\ found' = found
               /\ p' = p
               /\ rpc' = "while"]_vars
    /\ [](rpc = "return" /\ parseErrors > 0
            => /\ Len(result) = Len(filterids)
               /\ \A m \in Range(result) : \E t \in DOMAIN Decoded : m = Decoded[t])

\* a malformed line was skipped and the matching line after it is returned
C4_Witness ==
    /\ rpc = "return" /\ parseErrors = 1
    /\ filterids = <<"123">>
    /\ result = <<Message(PyInt(123), Absent, PyInt(4500))>>

\* C5: when get_rtl_values returns, the decoder process it spawned has been
\* killed or has exited, and no decoder process is running.
C5_NoProcessLeftRunning ==
    rpc = "return" => p \in {"killed", "exited"} /\ nalive = 0

\* early success with two identifiers: the decoder was killed
C5_Witness ==
    /\ rpc = "return" /\ p = "killed" /\ nalive = 0
    /\ Len(filterids) = 2 /\ Len(result) = 2 /\ spawns # <<>>

\* C6: at most one decoder process is alive in any state.
C6_AtMostOneDecoder == nalive <= 1

\* the water decoder runs after the electric and the gas decoder have finished
C6_Witness ==
    /\ spawns = <<"scm", "scm+", "r900bcd">>
    /\ p = "running" /\ nalive = 1

\* C7: the sleep time of a tick is max(0, interval - elapsed), interval in
\* seconds; it is 0 when the reads took longer than the interval and never
\* negative.
C7_SleepTimeClamped ==
    /\ sleeptime >= 0
    /\ pc = "sleep" =>
          /\ sleeptime = Max(0, interval * 60 - td)
          /\ td > interval * 60 => sleeptime = 0

\* a tick whose reads took longer than the interval sleeps 0 seconds
C7_Witness == pc = "sleep" /\ td > interval * 60 /\ sleeptime = 0

ExactlyOneOfGasElectric ==
    (gas_meter_id = PyNone) # (electric_meter_id = PyNone)

\* C8 as stated: with exactly one of the gas and electric identities
\* configured the gas/electric extraction spawns no process for the other
\* type and completes without raising.
C8_SingleTypeCompletes ==
    ExactlyOneOfGasElectric =>
        /\ gas_meter_id = PyNone => \A i \in 1..Len(spawns) : spawns[i] # "scm+"
        /\ electric_meter_id = PyNone => \A i \in 1..Len(spawns) : spawns[i] # "scm"
        /\ crash.exc # "UnboundLocalError"

\* C9 as stated: without a gas and an electric identity the gas/electric read
\* spawns no process and writes nothing, not even an empty batch; without a
\* water identity the water read spawns no process and writes no point.
C9_NoIdentityNoOp ==
    /\ gas_meter_id = PyNone /\ electric_meter_id = PyNone =>
          /\ \A i \in 1..Len(spawns) : spawns[i] \notin {"scm", "scm+"}
          /\ \A i \in 1..Len(written) : written[i] # <<>>
    /\ water_meter_id = PyNone =>
          /\ \A i \in 1..Len(spawns) : spawns[i] # "r900bcd"
          /\ \A i \in 1..Len(written) :
                \A pt \in Range(written[i]) : pt.measurement # "water"

\* C10 as stated: a decoded line of unrecognized shape (no "Message" key, or
\* no object at all) raises no error out of the gas/electric or the water
\* read: no exception from item["Message"] (lines 286, 295, 314) ends the
\* program.
C10_UnrecognizedShapeIgnored ==
    ~(/\ pc = "crashed"
      /\ crash.exc \in {"KeyError", "TypeError"}
      /\ crash.at \in {286, 295, 314})

\* a message whose Consumption is missing or is no number (a string float()
\* rejects, or null)
BadConsumption(m) ==
    \/ m.Consumption = Absent
    \/ m.Consumption.t = "none"
    \/ m.Consumption.t = "str" /\ m.Consumption.s \notin NumericStrings

\* the messages of the extraction in progress: le + lg
Merged == Range(le.v) \cup Range(lg.v)
\* the messages the extraction takes for the gas meter, and for the electric
\* meter
GasMessages ==
    {m \in Merged : /\ PyTruthy(gas_meter_id)
                    /\ m.hasMessage /\ m.EndpointID # Absent
                    /\ Str(m.EndpointID) = Str(gas_meter_id)}
ElectricMessages ==
    {m \in Merged \ GasMessages : /\ PyTruthy(electric_meter_id)
                                  /\ m.hasMessage /\ m.ID # Absent
                                  /\ Str(m.ID) = Str(electric_meter_id)}

\* the step in which __get_gas_and_electric_reading merges and extracts
ExtractStep == pc = "extract" /\ pc' # "extract"

\* C11 as stated: when both meter types were read and every line carried a
\* message, a message with a missing or non-numeric Consumption only loses
\* its own type's key: the extraction does not raise, a type whose messages
\* are all bad is omitted, and a type with a well-formed message is present.
C11_BadConsumptionOmitsOnlyItsKey ==
    [][/\ ExtractStep
       /\ le.bound /\ lg.bound
       /\ \A m \in Merged : m.hasMessage
       /\ \E m \in GasMessages \cup ElectricMessages : BadConsumption(m)
       => /\ pc' # "crashed"
          /\ readings'.gas.has <=> \E m \in GasMessages : ~BadConsumption(m)
          /\ readings'.electric.has
                <=> \E m \in ElectricMessages : ~BadConsumption(m)]_vars

\* the step in which get_water_reading gets the list from get_rtl_values
WaterStep == pc = "water_read" /\ rpc = "return" /\ pc' # "water_read"

\* C12 as stated: when the water extraction fails (no message, a message
\* without the required field, a non-numeric consumption) the water read
\* returns to the scheduler without a point, a write or an error.
C12_WaterFailureIsSilent ==
    [][/\ WaterStep
       /\ \/ result = <<>>
          \/ /\ result # <<>>
             /\ result[1].shape = "object"
             /\ ~result[1].hasMessage \/ BadConsumption(result[1])
       => /\ pc' = "t2"
          /\ crash' = crash
          /\ written' = written]_vars

\* every point written in the tick so far
PointsWritten == UNION {Range(written[i]) : i \in 1..Len(written)}

\* the tags a point of a meter must carry: the base tags and its own three
OwnTags(id, units) ==
    [hostname |-> PyStr("host"), meterid |-> id, units |-> PyStr(units),
     version |-> PyInt(1)]

\* C13: in a gas/electric batch the gas point's tags are the base tags with
\* the gas meter id and units "ccf", the electric point's tags are the base
\* tags with the electric meter id and units "kwh", and neither carries a
\* value of the other.
C13_TagCopiesIndependent ==
    \A pt \in PointsWritten :
        /\ pt.measurement = "gas" => pt.tags = OwnTags(gas_meter_id, "ccf")
        /\ pt.measurement = "electric"
              => pt.tags = OwnTags(electric_meter_id, "kwh")

\* a batch with a gas point and an electric point of different meters
C13_Witness ==
    \E i \in 1..Len(written) :
        /\ Len(written[i]) = 2
        /\ written[i][1].measurement = "gas"
        /\ written[i][2].measurement = "electric"
        /\ written[i][1].tags.meterid # written[i][2].tags.meterid

\* C14 as stated: the tags mapping the main loop hands to a read operation
\* has, when the operation has returned, exactly the keys and values it was
\* built with.
C14_CallerTagsUnchanged == tags = BaseTags

\* the number a well-formed Consumption stands for
Number(c) == IF c.t = "int" THEN c.n ELSE StringAsNumber[c.s]

\* C15 as stated: when a message carries the electric identity (compared as
\* strings) and a numeric consumption, the extraction returns an electric
\* reading of that consumption divided by 100; likewise for gas with
\* EndpointID; and without a message of a type's identity there is no
\* reading of that type.
C15_MatchingMessageGivesReading ==
    [][ExtractStep =>
        LET ge == {m \in ElectricMessages : ~BadConsumption(m)}
            gg == {m \in GasMessages : ~BadConsumption(m)}
        IN  /\ ge # {} =>
                 /\ pc' # "crashed"
                 /\ readings'.electric
                       \in {DivideBy100(Number(m.Consumption)) : m \in ge}
            /\ gg # {} =>
                 /\ pc' # "crashed"
                 /\ readings'.gas
                       \in {DivideBy100(Number(m.Consumption)) : m \in gg}
            /\ ElectricMessages = {} => ~readings'.electric.has
            /\ GasMessages = {} => ~readings'.gas.has]_vars

\* a read of the main loop is waiting on its decoder
InMeterRead == pc \in {"electric_read", "gas_read", "water_read"}

\* C16 as stated: when the decoder's stream ends early during a meter read of
\* a tick, the scheduler goes on to the next tick (unless an error of the
\* extraction ends the loop first).
C16_NextTickAfterEarlyEnd ==
    (InMeterRead /\ AtEndOfStream) ~> (pc = "tick" \/ pc = "crashed")

\* the batches written in the tick that hold no water point
GasElectricBatches ==
    {i \in 1..Len(written) :
        \A pt \in Range(written[i]) : pt.measurement \in {"gas", "electric"}}

\* the meter types the extraction of the tick returned a reading for
Extracted == {m \in {"gas", "electric"} : readings[m].has}

\* C17: the gas/electric read writes nothing before its extraction and at
\* most one batch in all (none without a sink); the batch holds exactly one
\* point for each meter type extracted, with the tick's timestamp and the
\* extracted reading, so that two readings go out in the same batch.
C17_OneBatchPerRead ==
    /\ pc \in {"gas_electric", "electric_read", "gas_read", "extract"}
          => written = <<>>
    /\ Cardinality(GasElectricBatches) <= 1
    /\ ~meter_client => written = <<>>
    /\ \A i \in 1..Len(written) : i \notin GasElectricBatches =>
          /\ Len(written[i]) = 1
          /\ written[i][1].measurement = "water"
    /\ pc \in {"water_test", "water_read", "t2", "sleep"} =>
          \A i \in GasElectricBatches :
              /\ Len(written[i]) = Cardinality(Extracted)
              /\ {pt.measurement : pt \in Range(written[i])} = Extracted
              /\ \A pt \in Range(written[i]) :
                    /\ pt.time = stamp
                    /\ pt.fields.reading = readings[pt.measurement]

\* both readings extracted and written in the one batch of the tick
C17_Witness ==
    /\ pc = "water_test"
    /\ readings.gas.has /\ readings.electric.has
    /\ Len(written) = 1
    /\ Len(written[1]) = 2

\* C19: a message that carries the gas identity in EndpointID is used for the
\* gas reading only, also when its ID is the electric identity: an electric
\* reading returned comes from a message that is not a gas message, and a
\* gas reading from a gas message.
C19_OneTypePerMessage ==
    [][ExtractStep /\ pc' # "crashed" =>
        /\ readings'.electric.has =>
              \E m \in Merged \ GasMessages :
                  /\ m.ID # Absent /\ Str(m.ID) = Str(electric_meter_id)
                  /\ ~BadConsumption(m)
                  /\ readings'.electric = DivideBy100(Number(m.Consumption))
        /\ readings'.gas.has =>
              \E m \in GasMessages :
                  /\ ~BadConsumption(m)
                  /\ readings'.gas = DivideBy100(Number(m.Consumption))]_vars

\* the message with both identities (the only one with EndpointID 456 and
\* Consumption 4500) gave the gas reading and no electric reading
C19_Witness ==
    /\ pc = "water_test"
    /\ PyTruthy(electric_meter_id) /\ PyTruthy(gas_meter_id)
    /\ readings.gas = DivideBy100(4500)
    /\ ~readings.electric.has

\* C20: in get_rtl_values found is the number of messages in result and
\* never exceeds the number of filter ids; the loop is left for the kill
\* exactly when found has reached that number, the process is killed only
\* then, and with no filter id it is killed before any line is read.
C20_FoundCountsResult ==
    /\ found = Len(result)
    /\ found <= Len(filterids)
    /\ rpc = "kill" => found = Len(filterids)
    /\ p = "killed" /\ rpc # "popen" => rpc = "return" /\ found = Len(filterids)
    /\ rpc = "return" /\ found = Len(filterids) => p = "killed"
    /\ rpc \in {"readline", "ifoutput"} => found < Len(filterids) + 1
    /\ filterids = <<>> => rpc \notin {"readline", "ifoutput"}
    /\ filterids = <<>> /\ rpc \in {"while", "kill", "return"} => emitted = 0

\* a call with two filter ids has recorded two messages and killed the decoder
C20_Witness ==
    /\ rpc = "return"
    /\ Len(filterids) = 2
    /\ found = 2
    /\ p = "killed"

\* the weather decoder's output has ended: end-of-file read, process exited
WeatherEnded == wpc # "idle" /\ output # NoOutput /\ output.text = "" /\ p = "exited"

\* C18 as stated: get_values returns readings only when a humidity and a
\* temperature field were seen in the lines it read, the readings go out as
\* the three points temperature, humidity, dewpoint in one batch, and when
\* the stream has ended before both fields were seen get_values returns (no
\* reading) and nothing is written.
C18_WeatherBothFieldsOrNothing ==
    /\ values.has => observed = {"humidity", "temperature_C"}
    /\ written # <<>> =>
          /\ values.has
          /\ Len(written) = 1
          /\ Len(written[1]) = 3
          /\ written[1][1].measurement = "temperature"
          /\ written[1][2].measurement = "humidity"
          /\ written[1][3].measurement = "dewpoint"
    /\ WeatherEnded /\ (foundH = 0 \/ foundT = 0) =>
          /\ wpc = "return"
          /\ ~values.has
          /\ written = <<>>

\* the calls of a tick: the gas/electric read once and first, then at most
\* one water read, all with the timestamp taken when the tick began
CallsInOrder ==
    /\ Len(calls) <= 2
    /\ \A i \in 1..Len(calls) :
          /\ calls[i].timestamp = stamp
          /\ calls[i].op = IF i = 1 THEN "do_gas_electric_meter_reading"
                           ELSE "do_water_meter_reading"
    /\ ~r => calls = <<>>
    /\ r /\ pc # "gas_electric" /\ (pc = "tick" => beat > 0) => Len(calls) >= 1

\* C21: with a reader object the gas/electric read is called exactly once in
\* every tick and before the water read of the tick, both with the timestamp
\* taken at the start of the tick (which only the start of a tick changes);
\* the tick counter starts at 0 and changes only at the end of a loop
\* iteration, where it grows by exactly 1 whatever the reads produced.
C21_OncePerTickInOrder ==
    /\ beat = 0
    /\ []CallsInOrder
    /\ [][/\ stamp' # stamp => pc = "tick"
          /\ beat' # beat => pc = "sleep"
          /\ pc = "sleep" /\ pc' # "sleep" => pc' = "tick" /\ beat' = beat + 1
          /\ pc = "tick" /\ pc' # "tick" => stamp' = beat /\ calls' = <<>>]_vars

\* tick 0 has ended with both reads called and nothing read or written
C21_Witness ==
    /\ pc = "tick" /\ beat = 1
    /\ r /\ meter_client
    /\ Len(calls) = 2
    /\ readings = EmptyDict
    /\ PointsWritten = {}

\* the decoders the gas/electric read of a tick starts, in order
ExpectedSpawns ==
    (IF PyTruthy(electric_meter_id) THEN <<"scm">> ELSE <<>>)
    \o (IF PyTruthy(gas_meter_id) THEN <<"scm+">> ELSE <<>>)

\* C22: without a sink client nothing is ever written, while the reads start
\* their decoders all the same (the configured gas/electric decoders have run
\* when the extraction begins, the water decoder when its list is taken);
\* with a client a batch is written only in the step in which the read's last
\* get_rtl_values call has returned, with no reader working.
C22_WriteOnlyWithClientAfterRead ==
    /\ [](~meter_client => written = <<>>)
    /\ [](pc = "extract" => spawns = ExpectedSpawns /\ rpc = "idle")
    /\ [](pc = "water_read" =>
             /\ msgtype = "r900bcd"
             /\ rpc # "popen" => spawns = ExpectedSpawns \o <<"r900bcd">>)
    /\ [][Len(written') > Len(written) =>
             /\ meter_client
             /\ Len(written') = Len(written) + 1
             /\ rpc' = "idle"
             /\ \/ pc = "extract"
                \/ pc = "water_read" /\ rpc = "return"
                \/ pc = "gas_electric" /\ ExpectedSpawns = <<>>]_vars

\* a tick without a client: all three decoders were started, the gas reading
\* was extracted, and nothing was written
C22_Witness ==
    /\ ~meter_client
    /\ pc = "t2"
    /\ spawns = <<"scm", "scm+", "r900bcd">>
    /\ readings.gas.has
    /\ written = <<>>

====
